---- MODULE Spec2Model ----
(***************************************************************************)
(* Model of eqcorrscan/core/lag_calc.py: the channel correlator            *)
(* (_channel_loop), the per-template group dispatcher (_day_loop) and the  *)
(* overseer (lag_calc).                                                    *)
(*                                                                         *)
(* Times are integers (one unit is the smallest time step of the model);   *)
(* a trace has a start time, a sample interval `delta` (in time units) and *)
(* samples.  Correlation coefficients are integers on a scale on which     *)
(* min_cc is one of MinCCs.  The samples of a data trace are abstracted by *)
(* the coefficient the template reaches when it is aligned at that sample, *)
(* so that the external normxcorr2 is a window over them.                  *)
(***************************************************************************)
EXTENDS Integers, Sequences, FiniteSets, TLC

VARIABLES
    \* a _channel_loop call, stepped one template channel at a time
    cl_template,    \* its template: a sequence of template traces
    cl_detection,   \* its detection: a sequence of windowed data traces
    cl_min_cc,      \* its min_cc
    cl_k,           \* the position of "for tr in template" (1-based)
    cl_st,          \* event.picks, s_stachans, used_s_sta, exception raised
    cl_pc,          \* "loop", "returned" or "raised" ("idle": no such call)
    \* a lag_calc call: its arguments
    template_names, \* list of template names
    templates,      \* list of templates (Streams: sequences of traces)
    detections,     \* list of DETECTION objects (template_name, detect_time)
    detect_data,    \* Stream of the continuous data: a sequence of trace ids
    shift_len,
    min_cc,
    \* the trace objects that lag_calc reads, copies and trims, by identity
    heap,
    \* multiprocessing.cpu_count()
    cpu_count,
    \* a lag_calc call: its locals
    pc,             \* "delays", "windows", "groups", "join", "done", "raised"
    error,          \* the exception that ended the call, or "none"
    delays,         \* list of (tempname, [(sta, chan, delay)])
    t_idx,          \* position of the loops over zipped_templates (1-based)
    d_idx,          \* position of the loop over detections (1-based)
    detect_streams, \* list of (template name, Stream of trace ids)
    initial_cat,    \* the catalog built so far: a sequence of Events
    \* the _day_loop call of the current template
    template_detections, \* its detection_streams argument
    tasks,          \* the apply_async tasks: arguments, state and result
    num_cores,      \* the size of its Pool
    got,            \* how many results "p.get() for p in results" has taken
    events_list,    \* the results taken so far
    temp_catalog,   \* the catalog the last _day_loop call returned
    finish_order    \* the task tags in the order the workers finished them

cl_vars == <<cl_template, cl_detection, cl_min_cc, cl_k, cl_st, cl_pc>>

arg_vars == <<template_names, detections, detect_data, shift_len, min_cc,
              cpu_count>>

day_vars == <<template_detections, tasks, num_cores, got, events_list,
              temp_catalog, finish_order>>

lag_vars == <<arg_vars, templates, heap, pc, error, delays, t_idx, d_idx,
              detect_streams, initial_cat, day_vars>>

vars == <<cl_vars, lag_vars>>

(***************************************************************************)
(* Bounds of the model.                                                    *)
(***************************************************************************)
\* longest template (number of channels) of a stepped _channel_loop run
MaxChans == 3

\* sample interval of every trace, in time units
Delta == 2

\* number of samples of a template trace
TplNpts == 2

(***************************************************************************)
(* Channel codes are sequences of characters, so that temp_chan[-1:] is    *)
(* computed and not looked up.                                             *)
(***************************************************************************)
EHZ == <<"E", "H", "Z">>
EHN == <<"E", "H", "N">>
EHE == <<"E", "H", "E">>
BHN == <<"B", "H", "N">>
EH1 == <<"E", "H", "1">>

\* (mutant) the first character of a channel code
FirstChar(chan) == chan[1]

\* temp_chan[-1:]: the last character, or the empty string of an empty code
LastChar(chan) == IF Len(chan) = 0 THEN "" ELSE chan[Len(chan)]

(***************************************************************************)
(* numpy and obspy helpers used by _channel_loop.                          *)
(***************************************************************************)
RECURSIVE amax(_)
\* np.amax of a non-empty sequence
amax(s) ==
    IF Len(s) = 1 THEN s[1]
    ELSE LET m == amax(Tail(s)) IN IF s[1] >= m THEN s[1] ELSE m

\* np.argmax: 0-based index of the first occurrence of the maximum
argmax(s) == (CHOOSE i \in 1..Len(s) :
                 /\ s[i] = amax(s)
                 /\ \A j \in 1..(i - 1) : s[j] < s[i]) - 1

\* Stream.select(station=, channel=): the matching traces, in stream order
select(stream, sta, chan) ==
    SelectSeq(stream, LAMBDA t : t.station = sta /\ t.channel = chan)

\* normxcorr2 is given a window shorter than the template: it raises
xcorr_raises(tr, im) == Len(im.data) < tr.npts

\* normxcorr2(tr.data, image[0].data): one coefficient per alignment of the
\* template inside the window, n - m + 1 of them
normxcorr2(tr, im) == SubSeq(im.data, 1, Len(im.data) - tr.npts + 1)

Pick(net, sta, chan, time, phase) ==
    [network |-> net, station |-> sta, channel |-> chan,
     time |-> time, phase_hint |-> phase]

\* s_stachans[temp_sta] = value
DictSet(d, k, v) == [x \in (DOMAIN d) \cup {k} |-> IF x = k THEN v ELSE d[x]]

\* (mutant) s_stachans is one dict for all the calls of a pool: a call
\* starts with the best S channel the finished calls recorded per station
channel_loop_shared ==
    LET SPicksOf(k, sta) ==
            {n \in 1..Len(tasks[k].result.event) :
                /\ tasks[k].result.event[n].phase_hint = "S"
                /\ tasks[k].result.event[n].station = sta}
        Recorded(sta) ==
            {k \in 1..Len(tasks) :
                tasks[k].state = "done" /\ SPicksOf(k, sta) # {}}
        Entry(sta) ==
            LET k == CHOOSE j \in Recorded(sta) :
                         \A l \in Recorded(sta) : j <= l
                n == CHOOSE m \in SPicksOf(k, sta) :
                         \A l \in SPicksOf(k, sta) : m <= l
                p == tasks[k].result.event[n]
                ttr == select(tasks[k].template, sta, p.channel)[1]
                im == select(tasks[k].detection, sta, p.channel)[1]
            IN <<p.channel, amax(normxcorr2(ttr, im)), p.time>>
        stations ==
            UNION {{tasks[k].template[n].station :
                       n \in 1..Len(tasks[k].template)} :
                   k \in 1..Len(tasks)}
    IN [picks |-> <<>>,
        s_stachans |-> [sta \in {x \in stations : Recorded(x) # {}} |->
                           Entry(sta)],
        used_s_sta |-> <<>>,
        raised |-> FALSE]

\* the state of a _channel_loop call before its first iteration
channel_loop_start ==
    [picks |-> <<>>, s_stachans |-> <<>>, used_s_sta |-> <<>>,
     raised |-> FALSE]

\* (mutant) the threshold itself is accepted too
at_or_above_min_cc(peak, mincc) == peak >= mincc

\* the comparison that accepts a correlation peak
above_min_cc(peak, mincc) == peak > mincc

\* (mutant) the peak index is added as if it were seconds
picktime_in_samples(start, idx, delta) == start + idx

\* lines 48-49: the time of the correlation peak in the window
picktime_of(start, idx, delta) == start + idx * delta

\* (mutant) the recorded pick time under the channel's own code
carried_pick_own_channel(tr, best) ==
    Pick(tr.network, tr.station, tr.channel, best[3], "S")

\* lines 66-67, 74-80: the pick made of the recorded channel and time
carried_pick(tr, best) ==
    Pick(tr.network, tr.station, best[1], best[3], "S")

\* one iteration of "for tr in template" of _channel_loop
channel_iter(st, tr, detection, mincc) ==
    LET image == select(detection, tr.station, tr.channel) IN
    IF image = <<>> THEN st
    ELSE IF xcorr_raises(tr, image[1]) THEN [st EXCEPT !.raised = TRUE]
    ELSE
    LET ccc == normxcorr2(tr, image[1])
        peak == amax(ccc)
        picktime == picktime_of(image[1].starttime, argmax(ccc),
                               image[1].delta)
        temp_sta == tr.station
        temp_chan == tr.channel
        own(phase) == Pick(tr.network, temp_sta, temp_chan, picktime, phase)
    IN
    IF ~above_min_cc(peak, mincc) THEN st
    ELSE IF LastChar(temp_chan) = "Z"
    THEN [st EXCEPT !.picks = Append(@, own("P"))]
    ELSE IF LastChar(temp_chan) \in {"E", "N"}
    THEN IF temp_sta \notin DOMAIN st.s_stachans /\ peak > mincc
         THEN [st EXCEPT !.s_stachans = DictSet(@, temp_sta,
                                           <<temp_chan, peak, picktime>>),
                         !.picks = Append(@, own("S"))]
         ELSE IF temp_sta \in DOMAIN st.s_stachans /\ peak > mincc
         THEN IF peak > st.s_stachans[temp_sta][2]
              THEN [st EXCEPT !.picks = Append(@, own("S"))]
              ELSE [st EXCEPT !.picks = Append(@,
                        carried_pick(tr, st.s_stachans[temp_sta]))]
         ELSE IF peak < mincc
                 /\ \A i \in 1..Len(st.used_s_sta) : st.used_s_sta[i] # temp_sta
         THEN [st EXCEPT !.used_s_sta = Append(@, temp_sta),
                         !.picks = Append(@, own("S"))]
         ELSE st
    ELSE [st EXCEPT !.picks = Append(@, own("none"))]

RECURSIVE channel_loop_from(_, _, _, _, _)
\* the iterations k, k+1, ... of the loop; an exception ends the loop
channel_loop_from(st, k, template, detection, mincc) ==
    IF st.raised \/ k > Len(template) THEN st
    ELSE channel_loop_from(channel_iter(st, template[k], detection, mincc),
                           k + 1, template, detection, mincc)

\* _channel_loop(detection, template, mincc, i): (i, event), or an exception
channel_loop(detection, template, mincc, i) ==
    LET st == channel_loop_from(channel_loop_start, 1, template, detection,
                                mincc)
    IN [i |-> i, event |-> st.picks, raised |-> st.raised]

(***************************************************************************)
(* obspy helpers used by lag_calc and _day_loop.                           *)
(***************************************************************************)
\* list.sort(key=...) on (key, value) pairs: ascending and stable, so an
\* element stands behind those with a smaller key and those with its own
\* key that stood before it
sort_pairs(s) ==
    LET before(j, k) ==
            s[j].key < s[k].key \/ (s[j].key = s[k].key /\ j <= k)
        rank(k) == Cardinality({j \in 1..Len(s) : before(j, k)})
    IN [p \in 1..Len(s) |-> s[CHOOSE k \in 1..Len(s) : rank(k) = p]]

\* (mutant) the Stream is left as it is
stream_unsorted(traces) == traces

\* Stream.sort(['starttime']): the traces by ascending start time
stream_sort(traces) ==
    LET sorted == sort_pairs([k \in 1..Len(traces) |->
                     [key |-> traces[k].starttime, val |-> traces[k]]])
    IN [k \in 1..Len(traces) |-> sorted[k].val]

\* round(num / den), halves away from zero (den > 0)
round_away(num, den) ==
    IF num >= 0 THEN (2 * num + den) \div (2 * den)
    ELSE -((2 * (-num) + den) \div (2 * den))

\* Trace.stats.endtime
endtime_of(tr) ==
    tr.starttime + (IF Len(tr.data) = 0 THEN 0 ELSE (Len(tr.data) - 1) * tr.delta)

\* Trace._ltrim(starttime), nearest_sample, no padding
ltrim(tr, starttime) ==
    LET k == round_away(starttime - tr.starttime, tr.delta) IN
    IF k > 0
    THEN [tr EXCEPT !.starttime = @ + k * tr.delta,
                    !.data = SubSeq(@, k + 1, Len(@))]
    ELSE tr

\* Trace._rtrim(endtime), nearest_sample, no padding
rtrim(tr, endtime) ==
    LET n == Len(tr.data)
        k == round_away(endtime - tr.starttime, tr.delta) - n + 1
    IN
    IF k >= 0 THEN tr
    ELSE IF endtime < tr.starttime
    THEN [tr EXCEPT !.starttime = endtime_of(tr) + k * tr.delta, !.data = <<>>]
    ELSE [tr EXCEPT !.data =
              SubSeq(@, 1, IF endtime = tr.starttime THEN 1 ELSE n + k)]

\* Trace.trim(starttime=, endtime=) with starttime <= endtime
trim(tr, starttime, endtime) == rtrim(ltrim(tr, starttime), endtime)

\* (mutant) no copy is made: the trace itself is handed on
copy_trace_alias(h, oid) == [heap |-> h, oid |-> oid]

\* tr.copy(): a new trace object with the same contents
copy_trace(h, oid) == [heap |-> Append(h, h[oid]), oid |-> Len(h) + 1]

(***************************************************************************)
(* lag_calc                                                                *)
(***************************************************************************)
\* zip(template_names, templates): pairs that refer to the caller's Streams
zip_templates(names, tpls) ==
    [k \in 1..(IF Len(names) <= Len(tpls) THEN Len(names) ELSE Len(tpls)) |->
        [name |-> names[k], traces |-> tpls[k]]]

\* lines 182-186: the delays of one template, in the order of its traces
\* (the loop runs over a copy of the trace list made before the first sort)
temp_delays_of(traces) ==
    [k \in 1..Len(traces) |->
        <<traces[k].station, traces[k].channel,
          traces[k].starttime - stream_sort(traces)[1].starttime>>]

\* the Stream after the loop of lines 183-186: sort() sorted it in place
sorted_in_place(traces) == stream_sort(traces)

\* line 202: len(template[0]) / template[0].stats.sampling_rate, with
\* sampling_rate = 1 / delta
template_len_of(ttr) == ttr.npts * ttr.delta

\* lines 209-213: the delay of (station, channel) in the first entry of
\* delays that carries the name
delay_of(dls, name, sta, chan) ==
    LET entry == SelectSeq(dls, LAMBDA e : e.name = name)[1].temp_delays
    IN SelectSeq(entry, LAMBDA d : d[1] = sta /\ d[2] = chan)[1][3]

\* lines 196-197: the templates that carry the detection's name
named_templates(zipped, name) == SelectSeq(zipped, LAMBDA t : t.name = name)

\* lines 214-218: the bounds of the window of a detection on a channel
window_start(detection, shift, delay) ==
    detection.detect_time - shift + delay

\* (mutant) the length of the template channel is left out
window_end_no_len(detection, shift, delay, template_len) ==
    detection.detect_time + delay + shift

window_end(detection, shift, delay, template_len) ==
    detection.detect_time + delay + shift + template_len

RECURSIVE window_loop(_, _, _, _, _, _, _)
\* lines 193-219: "for tr in detect_data" from position j on; acc holds the
\* heap, detect_stream and whether line 196 raised IndexError
window_loop(acc, j, detection, data, zipped, dls, shift) ==
    IF acc.raised \/ j > Len(data) THEN acc
    ELSE
    LET tr == acc.heap[data[j]]
        named == named_templates(zipped, detection.template_name)
    IN
    IF named = <<>>
    THEN [acc EXCEPT !.raised = TRUE]
    ELSE
    LET template == select(named[1].traces, tr.station, tr.channel) IN
    IF template = <<>>
    THEN window_loop(acc, j + 1, detection, data, zipped, dls, shift)
    ELSE
    LET cp == copy_trace(acc.heap, data[j])
        template_len == template_len_of(template[1])
        delay == delay_of(dls, detection.template_name, tr.station,
                          tr.channel)
        trimmed == trim(cp.heap[cp.oid],
                        window_start(detection, shift, delay),
                        window_end(detection, shift, delay, template_len))
    IN window_loop([acc EXCEPT !.heap = [cp.heap EXCEPT ![cp.oid] = trimmed],
                               !.detect_stream = Append(@, cp.oid)],
                   j + 1, detection, data, zipped, dls, shift)

\* (mutant) a detection with no window is not kept
append_stream_if_any(streams, name, stream) ==
    IF stream = <<>> THEN streams
    ELSE Append(streams, [name |-> name, stream |-> stream])

\* line 221: detect_streams.append((detection.template_name, Stream(...)))
append_stream(streams, name, stream) ==
    Append(streams, [name |-> name, stream |-> stream])

zipped_templates == zip_templates(template_names, templates)

\* lines 181-187: one iteration of the loop that builds delays
DelayStep ==
    /\ pc = "delays"
    /\ t_idx <= Len(zipped_templates)
    /\ delays' = Append(delays,
                    [name |-> zipped_templates[t_idx].name,
                     temp_delays |-> temp_delays_of(templates[t_idx])])
    /\ templates' = [templates EXCEPT ![t_idx] = sorted_in_place(@)]
    /\ t_idx' = t_idx + 1
    /\ UNCHANGED <<cl_vars, arg_vars, heap, pc, error, d_idx, detect_streams,
                   initial_cat, day_vars>>

\* line 189: the loop over the templates is over
DelaysDone ==
    /\ pc = "delays"
    /\ t_idx > Len(zipped_templates)
    /\ pc' = "windows"
    /\ d_idx' = 1
    /\ detect_streams' = <<>>
    /\ UNCHANGED <<cl_vars, arg_vars, templates, heap, error, delays, t_idx,
                   initial_cat, day_vars>>

\* lines 190-221: one iteration of "for detection in detections"
WindowStep ==
    /\ pc = "windows"
    /\ d_idx <= Len(detections)
    /\ LET detection == detections[d_idx]
           res == window_loop([heap |-> heap, detect_stream |-> <<>>,
                               raised |-> FALSE],
                              1, detection, detect_data, zipped_templates,
                              delays, shift_len)
       IN IF res.raised
          THEN /\ pc' = "raised"
               /\ error' = "IndexError"
               /\ UNCHANGED <<heap, d_idx, detect_streams>>
          ELSE /\ heap' = res.heap
               /\ detect_streams' = append_stream(detect_streams,
                                       detection.template_name,
                                       res.detect_stream)
               /\ d_idx' = d_idx + 1
               /\ UNCHANGED <<pc, error>>
    /\ UNCHANGED <<cl_vars, arg_vars, templates, delays, t_idx, initial_cat,
                   day_vars>>

\* line 223: initial_cat = Catalog(), and the loop of line 224 starts
WindowsDone ==
    /\ pc = "windows"
    /\ d_idx > Len(detections)
    /\ pc' = "groups"
    /\ t_idx' = 1
    /\ initial_cat' = <<>>
    /\ UNCHANGED <<cl_vars, arg_vars, templates, heap, error, delays, d_idx,
                   detect_streams, day_vars>>

(***************************************************************************)
(* _day_loop                                                               *)
(***************************************************************************)
\* (mutant) the streams of all detections, whatever their template
streams_of_any_name(streams, name) ==
    [k \in 1..Len(streams) |-> streams[k].stream]

\* lines 225-226: the streams of the detections of a template, in the order
\* of detect_streams
streams_named(streams, name) ==
    LET mine == SelectSeq(streams, LAMBDA d : d.name = name)
    IN [k \in 1..Len(mine) |-> mine[k].stream]

\* (mutant) one core is left free when there are more tasks than cores
pool_size_spare_core(cpus, n) == IF cpus > n THEN n ELSE cpus - 1

\* lines 108-110: the number of worker processes
pool_size(cpus, n) == IF cpus > n THEN n ELSE cpus

\* line 114: the stream handed to the task with tag i (0-based)
task_stream(detection_streams, i) == detection_streams[i + 1]

\* lines 114-116: the tasks of apply_async; the arguments are pickled, so a
\* task holds the values of its traces
make_tasks(detection_streams, template, mincc, h) ==
    [k \in 1..Len(detection_streams) |->
        [i |-> k - 1,
         detection |-> [n \in 1..Len(task_stream(detection_streams, k - 1)) |->
                           h[task_stream(detection_streams, k - 1)[n]]],
         template |-> template,
         min_cc |-> mincc,
         state |-> "queued",
         result |-> [i |-> k - 1, event |-> <<>>, raised |-> FALSE]]]

\* (mutant) the list sorted on i in descending order
sort_events_reversed(list) ==
    LET sorted == sort_pairs([k \in 1..Len(list) |->
                     [key |-> -list[k].i, val |-> list[k]]])
    IN [k \in 1..Len(list) |-> sorted[k].val]

\* line 119: events_list.sort(key=lambda tup: tup[0])
sort_events(list) ==
    LET sorted == sort_pairs([k \in 1..Len(list) |->
                     [key |-> list[k].i, val |-> list[k]]])
    IN [k \in 1..Len(list) |-> sorted[k].val]

\* lines 120-121: the events of the sorted list
catalog_of(list) == [k \in 1..Len(list) |-> list[k].event]

Running == {k \in 1..Len(tasks) : tasks[k].state = "running"}

Queued == {k \in 1..Len(tasks) : tasks[k].state = "queued"}

\* the group of the template at t_idx
GroupOf(t) == streams_named(detect_streams, zipped_templates[t].name)

\* line 227: a template with no detection is passed over
DayLoopSkip ==
    /\ pc = "groups"
    /\ t_idx <= Len(zipped_templates)
    /\ ~(Len(GroupOf(t_idx)) > 0)
    /\ t_idx' = t_idx + 1
    /\ UNCHANGED <<cl_vars, arg_vars, templates, heap, pc, error, delays,
                   d_idx, detect_streams, initial_cat, day_vars>>

\* lines 228, 105-117: _day_loop is called, creates its Pool and submits one
\* task per detection stream
DayLoopDispatch ==
    /\ pc = "groups"
    /\ t_idx <= Len(zipped_templates)
    /\ Len(GroupOf(t_idx)) > 0
    /\ template_detections' = GroupOf(t_idx)
    /\ num_cores' = pool_size(cpu_count, Len(GroupOf(t_idx)))
    /\ tasks' = make_tasks(GroupOf(t_idx), zipped_templates[t_idx].traces,
                           min_cc, heap)
    /\ got' = 0
    /\ events_list' = <<>>
    /\ finish_order' = <<>>
    /\ pc' = "join"
    /\ UNCHANGED <<cl_vars, arg_vars, templates, heap, error, delays, t_idx,
                   d_idx, detect_streams, initial_cat, temp_catalog>>

\* a free worker of the Pool takes the oldest task of the queue
TaskStart ==
    /\ Cardinality(Running) < num_cores
    /\ \E k \in Queued :
        /\ \A j \in Queued : k <= j
        /\ tasks' = [tasks EXCEPT ![k].state = "running"]
    /\ UNCHANGED <<cl_vars, arg_vars, templates, heap, pc, error, delays,
                   t_idx, d_idx, detect_streams, initial_cat,
                   template_detections, num_cores, got, events_list,
                   temp_catalog, finish_order>>

\* a worker finishes its _channel_loop call
TaskFinish ==
    /\ \E k \in Running :
        /\ tasks' = [tasks EXCEPT
               ![k].state = "done",
               ![k].result = channel_loop(tasks[k].detection,
                                          tasks[k].template,
                                          tasks[k].min_cc, tasks[k].i)]
        /\ finish_order' = Append(finish_order, tasks[k].i)
    /\ UNCHANGED <<cl_vars, arg_vars, templates, heap, pc, error, delays,
                   t_idx, d_idx, detect_streams, initial_cat,
                   template_detections, num_cores, got, events_list,
                   temp_catalog>>

\* line 118: p.get() returns only when its task has finished
get_without_waiting(task) == TRUE

result_ready(task) == task.state = "done"

\* line 118: p.get() raises again the exception its task ended with
get_swallows(result) == FALSE

get_raises(result) == result.raised

\* line 118: p.get() of the next result, which is not the last one
DayLoopGet ==
    /\ pc = "join"
    /\ got + 1 < Len(tasks)
    /\ result_ready(tasks[got + 1])
    /\ ~get_raises(tasks[got + 1].result)
    /\ events_list' = Append(events_list, tasks[got + 1].result)
    /\ got' = got + 1
    /\ UNCHANGED <<cl_vars, arg_vars, templates, heap, pc, error, delays,
                   t_idx, d_idx, detect_streams, initial_cat,
                   template_detections, tasks, num_cores, temp_catalog,
                   finish_order>>

\* line 118: p.get() raises the exception of its task again; nothing
\* catches it in _day_loop or in lag_calc
DayLoopRaise ==
    /\ pc = "join"
    /\ got + 1 <= Len(tasks)
    /\ result_ready(tasks[got + 1])
    /\ get_raises(tasks[got + 1].result)
    /\ pc' = "raised"
    /\ error' = "TaskFailure"
    /\ UNCHANGED <<cl_vars, arg_vars, templates, heap, delays, t_idx, d_idx,
                   detect_streams, initial_cat, day_vars>>

\* lines 118-122, 228: the last p.get(), the sort on i, the catalog of the
\* group, and initial_cat += that catalog
DayLoopReturn ==
    /\ pc = "join"
    /\ got + 1 = Len(tasks)
    /\ result_ready(tasks[got + 1])
    /\ ~get_raises(tasks[got + 1].result)
    /\ events_list' = sort_events(Append(events_list, tasks[got + 1].result))
    /\ got' = got + 1
    /\ temp_catalog' = catalog_of(events_list')
    /\ initial_cat' = initial_cat \o temp_catalog'
    /\ t_idx' = t_idx + 1
    /\ pc' = "groups"
    /\ UNCHANGED <<cl_vars, arg_vars, templates, heap, error, delays, d_idx,
                   detect_streams, template_detections, tasks, num_cores,
                   finish_order>>

\* line 229: return initial_cat
Return ==
    /\ pc = "groups"
    /\ t_idx > Len(zipped_templates)
    /\ pc' = "done"
    /\ UNCHANGED <<cl_vars, arg_vars, templates, heap, error, delays, t_idx,
                   d_idx, detect_streams, initial_cat, day_vars>>

(***************************************************************************)
(* Inputs of the model.                                                    *)
(***************************************************************************)
\* the values of min_cc, on the integer correlation scale
MinCCs == {2, 3}

\* (station, channel) of the traces: one vertical, three horizontals and one
\* unoriented channel of a station, and a horizontal of another station
TraceKeys ==
    {<<"WEL", EHZ>>, <<"WEL", EHN>>, <<"WEL", EHE>>, <<"WEL", BHN>>,
     <<"WEL", EH1>>, <<"BFZ", EHN>>}

TemplateTrace(key, start) ==
    [network |-> "NZ", station |-> key[1], channel |-> key[2],
     starttime |-> start, delta |-> Delta, npts |-> TplNpts]

DataTrace(key, start, data) ==
    [network |-> "NZ", station |-> key[1], channel |-> key[2],
     starttime |-> start, delta |-> Delta, data |-> data]

\* n zeros
Zeros(n) == [i \in 1..n |-> 0]

\* the correlation sequences a window may give: peak below, at and above the
\* smaller min_cc, the peak first or second, one alignment only
CccChoices == {<<1, 1>>, <<2, 1>>, <<1, 3>>, <<4>>}

\* the samples of a window: those giving a sequence of CccChoices, and a
\* window one sample shorter than the template
WindowDataChoices ==
    {ccc \o Zeros(TplNpts - 1) : ccc \in CccChoices} \cup {Zeros(TplNpts - 1)}

\* the sequences of at most n distinct trace keys
KeySeqs(n) ==
    {s \in UNION {[1..k -> TraceKeys] : k \in 0..n} :
        \A i, j \in 1..Len(s) : i # j => s[i] # s[j]}

\* the start time of the windows of a stepped _channel_loop call
ClWindowStart == 5 * Delta

(***************************************************************************)
(* Inputs of a lag_calc call.                                              *)
(***************************************************************************)
\* most detections of a lag_calc call
MaxDetections == 3

\* most processors of the machine
MaxCores == 2

\* two channels, the later one first
TplZN ==
    <<TemplateTrace(<<"WEL", EHN>>, Delta), TemplateTrace(<<"WEL", EHZ>>, 0)>>

\* two horizontals and a vertical of one station, not in start-time order
TplHHZ ==
    <<TemplateTrace(<<"WEL", EHE>>, Delta), TemplateTrace(<<"WEL", EHN>>, 0),
      TemplateTrace(<<"WEL", EHZ>>, Delta)>>

\* the templates: the two above and a template with no channel
TemplateLib == {TplZN, TplHHZ, <<>>}

\* template_names: one or two templates; names are distinct, a name
\* identifies its template
NameLists == {<<"A">>, <<"A", "B">>, <<"B", "A">>}

\* detections of the templates A and B and of a template nobody supplied
DetectionChoices ==
    {[template_name |-> "A", detect_time |-> 2 * Delta],
     [template_name |-> "A", detect_time |-> 6 * Delta],
     [template_name |-> "B", detect_time |-> 2 * Delta],
     [template_name |-> "X", detect_time |-> 2 * Delta]}

\* continuous data of four channels from time 0 on
DataFull ==
    <<DataTrace(<<"WEL", EHZ>>, 0, <<1, 1, 3, 1, 2, 1, 4, 1>>),
      DataTrace(<<"BFZ", EHN>>, 0, <<1, 4>>),
      DataTrace(<<"WEL", EHN>>, 0, <<1, 3, 1, 1, 1, 4, 2, 3>>),
      DataTrace(<<"WEL", EHE>>, 0, <<2, 4, 1, 1, 3, 1, 1, 1>>)>>

\* continuous data with a gap on one channel
DataGappy ==
    <<DataTrace(<<"WEL", EHE>>, Delta, <<3, 1, 4, 1>>),
      DataTrace(<<"WEL", EHE>>, 6 * Delta, <<1, 4, 1>>),
      DataTrace(<<"BFZ", EHN>>, 0, <<1, 4>>)>>

\* the continuous data: the two above and a Stream with no trace
DataLib == {DataFull, DataGappy, <<>>}

\* min_cc of a lag_calc call: the smaller value
LagMinCC == CHOOSE m \in MinCCs : \A x \in MinCCs : m <= x

\* the values of shift_len
ShiftLens == {0, Delta}

\* no _channel_loop call is stepped
ChanIdle ==
    /\ cl_template = <<>>
    /\ cl_detection = <<>>
    /\ cl_min_cc = 0
    /\ cl_k = 0
    /\ cl_st = channel_loop_start
    /\ cl_pc = "idle"

\* no lag_calc call is made
LagIdle ==
    /\ template_names = <<>>
    /\ templates = <<>>
    /\ detections = <<>>
    /\ detect_data = <<>>
    /\ shift_len = 0
    /\ min_cc = 0
    /\ heap = <<>>
    /\ cpu_count = 0
    /\ pc = "idle"
    /\ error = "none"
    /\ delays = <<>>
    /\ t_idx = 0
    /\ d_idx = 0
    /\ detect_streams = <<>>
    /\ initial_cat = <<>>
    /\ template_detections = <<>>
    /\ tasks = <<>>
    /\ num_cores = 0
    /\ got = 0
    /\ events_list = <<>>
    /\ temp_catalog = <<>>
    /\ finish_order = <<>>

(***************************************************************************)
(* Spec: one lag_calc call, from its first line on.                        *)
(***************************************************************************)
Init ==
    /\ template_names \in NameLists
    /\ templates \in [1..Len(template_names) -> TemplateLib]
    /\ detections \in UNION {[1..n -> DetectionChoices] : n \in 0..MaxDetections}
    /\ \E data \in DataLib :
        /\ heap = data
        /\ detect_data = [k \in 1..Len(data) |-> k]
    /\ shift_len \in ShiftLens
    /\ min_cc = LagMinCC
    /\ cpu_count \in 1..MaxCores
    /\ pc = "delays"
    /\ error = "none"
    /\ delays = <<>>
    /\ t_idx = 1
    /\ d_idx = 0
    /\ detect_streams = <<>>
    /\ initial_cat = <<>>
    /\ template_detections = <<>>
    /\ tasks = <<>>
    /\ num_cores = 0
    /\ got = 0
    /\ events_list = <<>>
    /\ temp_catalog = <<>>
    /\ finish_order = <<>>
    /\ ChanIdle

Next ==
    \/ DelayStep
    \/ DelaysDone
    \/ WindowStep
    \/ WindowsDone
    \/ DayLoopSkip
    \/ DayLoopDispatch
    \/ TaskStart
    \/ TaskFinish
    \/ DayLoopGet
    \/ DayLoopRaise
    \/ DayLoopReturn
    \/ Return

Spec == Init /\ [][Next]_vars

\* the workers of a Pool go on taking and finishing tasks, and a p.get()
\* whose task has finished returns or raises: nothing in _day_loop cancels
\* a task, ends the pool early or gives up waiting
Fairness ==
    /\ WF_vars(TaskStart)
    /\ WF_vars(TaskFinish)
    /\ WF_vars(DayLoopGet \/ DayLoopRaise \/ DayLoopReturn)

\* the calls with templates A and B, the second of two channels, on the
\* continuous data of four channels, with known names and no shift
FairInit ==
    /\ Init
    /\ template_names = <<"A", "B">>
    /\ templates[2] = TplZN
    /\ heap = DataFull
    /\ shift_len = 0
    /\ \A d \in 1..Len(detections) :
          \E t \in 1..Len(template_names) :
              template_names[t] = detections[d].template_name

SpecFair == FairInit /\ [][Next]_vars /\ Fairness

(***************************************************************************)
(* SpecChan: one _channel_loop call on any template of at most MaxChans    *)
(* channels and any detection stream, one loop iteration per step.         *)
(***************************************************************************)
ChanInit ==
    /\ LagIdle
    /\ \E keys \in KeySeqs(MaxChans) :
        /\ cl_template = [k \in 1..Len(keys) |-> TemplateTrace(keys[k], 0)]
        /\ \E here \in SUBSET (1..Len(keys)) :
           \E data \in [here -> WindowDataChoices] :
              LET idx == SelectSeq([k \in 1..Len(keys) |-> k],
                                   LAMBDA k : k \in here)
              IN cl_detection = [n \in 1..Len(idx) |->
                     DataTrace(keys[idx[n]], ClWindowStart, data[idx[n]])]
    /\ cl_min_cc \in MinCCs
    /\ cl_k = 1
    /\ cl_st = channel_loop_start
    /\ cl_pc = "loop"

\* lines 36-80: the body of "for tr in template" for the trace at cl_k
ChanIter ==
    /\ cl_pc = "loop"
    /\ cl_k <= Len(cl_template)
    /\ cl_st' = channel_iter(cl_st, cl_template[cl_k], cl_detection, cl_min_cc)
    /\ IF cl_st'.raised
       THEN cl_pc' = "raised" /\ cl_k' = cl_k
       ELSE cl_pc' = cl_pc /\ cl_k' = cl_k + 1
    /\ UNCHANGED <<cl_template, cl_detection, cl_min_cc, lag_vars>>

\* line 81: return (i, event)
ChanReturn ==
    /\ cl_pc = "loop"
    /\ cl_k > Len(cl_template)
    /\ cl_pc' = "returned"
    /\ UNCHANGED <<cl_template, cl_detection, cl_min_cc, cl_k, cl_st,
                   lag_vars>>

ChanNext == ChanIter \/ ChanReturn

SpecChan == ChanInit /\ [][ChanNext]_vars

(***************************************************************************)
(* Definitions shared by the properties below.                             *)
(***************************************************************************)
\* the traces of a Stream of trace ids
Values(stream) == [n \in 1..Len(stream) |-> heap[stream[n]]]

\* the positions of a sequence that satisfy Test, in ascending order
Positions(n, Test(_)) == SelectSeq([k \in 1..n |-> k], Test)

\* the samples of a trace, each with its time
Samples(tr) ==
    {<<tr.starttime + (i - 1) * tr.delta, tr.data[i]>> : i \in 1..Len(tr.data)}

\* the smallest start time among the traces of a template
MinStart(traces) ==
    CHOOSE m \in {traces[k].starttime : k \in 1..Len(traces)} :
        \A k \in 1..Len(traces) : m <= traces[k].starttime

\* the correlation peak of template channel k of the stepped call, or -1
\* when the channel has no window or the correlation raises
ClPeak(k) ==
    LET image == select(cl_detection, cl_template[k].station,
                        cl_template[k].channel)
    IN IF image = <<>> \/ Len(image[1].data) < cl_template[k].npts THEN -1
       ELSE amax(normxcorr2(cl_template[k], image[1]))

\* the positions of the detections of a template name, in input order
DetectionsOf(name) ==
    Positions(Len(detections), LAMBDA d : detections[d].template_name = name)

\* the Event of detection d against template t, from its window set
EventOf(d, t) ==
    channel_loop(Values(detect_streams[d].stream), templates[t], min_cc, 0).event

RECURSIVE Concatenation(_)
\* the Events of the templates 1..t, template by template
Concatenation(t) ==
    IF t = 0 THEN <<>>
    ELSE Concatenation(t - 1) \o
         [k \in 1..Len(DetectionsOf(template_names[t])) |->
             EventOf(DetectionsOf(template_names[t])[k], t)]

AllNamesKnown ==
    \A d \in 1..Len(detections) :
        \E t \in 1..Len(template_names) :
            template_names[t] = detections[d].template_name

\* the template a known name stands for
TemplateOf(name) ==
    templates[CHOOSE t \in 1..Len(template_names) : template_names[t] = name]

\* detection d has a template, and no trace of detect_data is on a channel
\* of that template
NoChannelMatches(d) ==
    /\ \E t \in 1..Len(template_names) :
          template_names[t] = detections[d].template_name
    /\ \A j \in 1..Len(detect_data) :
          select(TemplateOf(detections[d].template_name),
                 heap[detect_data[j]].station,
                 heap[detect_data[j]].channel) = <<>>

\* where the Event of detection d stands in the result
ResultPosition(d) ==
    LET T(name) == CHOOSE t \in 1..Len(template_names) : template_names[t] = name
    IN Cardinality({e \in 1..Len(detections) :
           \/ T(detections[e].template_name) < T(detections[d].template_name)
           \/ /\ detections[e].template_name = detections[d].template_name
              /\ e <= d})

\* the template argument of the last _day_loop call
GroupTemplate == tasks[1].template

\* _day_loop has returned the catalog of the group of template_detections
DayLoopReturned ==
    pc \in {"groups", "done"} /\ Len(tasks) > 0 /\ got = Len(tasks)

(***************************************************************************)
(* C1: whatever the order in which the tasks of a group finish, the        *)
(* catalog _day_loop returns holds one Event per detection stream of the   *)
(* group, and its k-th Event is the one computed from the k-th stream.     *)
(***************************************************************************)
C1_GroupOrderPreserved ==
    DayLoopReturned =>
        /\ Len(temp_catalog) = Len(template_detections)
        /\ \A k \in 1..Len(template_detections) :
              temp_catalog[k] =
                  channel_loop(Values(template_detections[k]),
                               GroupTemplate, min_cc, 0).event

\* a group of two whose second task finished first and whose Events differ
C1_Witness ==
    /\ DayLoopReturned
    /\ Len(temp_catalog) >= 2
    /\ finish_order[1] > finish_order[2]
    /\ temp_catalog[1] # temp_catalog[2]

(***************************************************************************)
(* C2: an Event of _channel_loop holds at most one pick with phase hint S  *)
(* per station.                                                            *)
(***************************************************************************)
C2_AtMostOneSPickPerStation ==
    \A n, m \in 1..Len(cl_st.picks) :
        (/\ cl_st.picks[n].phase_hint = "S"
         /\ cl_st.picks[m].phase_hint = "S"
         /\ cl_st.picks[n].station = cl_st.picks[m].station) => n = m

(***************************************************************************)
(* C3: an iteration on a template channel whose peak correlation is less   *)
(* than or equal to min_cc appends no pick to the Event, whatever the      *)
(* channel code and the arbitration state.                                 *)
(***************************************************************************)
C3_NoPickAtOrBelowMinCC ==
    [][(/\ cl_pc = "loop"
        /\ cl_k <= Len(cl_template)
        /\ ClPeak(cl_k) <= cl_min_cc) => cl_st'.picks = cl_st.picks]_vars

\* a horizontal channel with peak = min_cc has just been passed over while
\* its station has a recorded best S channel and one pick
C3_Witness ==
    /\ cl_pc = "loop"
    /\ cl_k = 3
    /\ ClPeak(2) = cl_min_cc
    /\ LastChar(cl_template[2].channel) \in {"E", "N"}
    /\ cl_template[2].station \in DOMAIN cl_st.s_stachans
    /\ Len(cl_st.picks) = 1

(***************************************************************************)
(* C4: the catalog lag_calc returns is the concatenation, over the         *)
(* templates in the caller's order, of the Events of each template's       *)
(* detections in their input order; a template with no detection adds      *)
(* nothing and _day_loop is not called for it.                             *)
(***************************************************************************)
C4_Concatenation ==
    /\ pc = "done" => initial_cat = Concatenation(Len(template_names))
    /\ pc = "join" => Len(template_detections) > 0

\* templates [A, B], detections A, B, A: the result is A1, A2, B1
C4_Witness ==
    /\ pc = "done"
    /\ template_names = <<"A", "B">>
    /\ Len(detections) = 3
    /\ detections[1].template_name = "A"
    /\ detections[2].template_name = "B"
    /\ detections[3].template_name = "A"
    /\ initial_cat = <<EventOf(1, 1), EventOf(3, 1), EventOf(2, 2)>>
    /\ EventOf(3, 1) # EventOf(2, 2)
    /\ EventOf(1, 1) # EventOf(3, 1)

(***************************************************************************)
(* C5: when every detection names a supplied template, the catalog         *)
(* lag_calc returns holds one Event per detection, and the Event of a      *)
(* detection none of whose data channels is a channel of its template has  *)
(* no picks.                                                               *)
(***************************************************************************)
C5_OneEventPerDetection ==
    (pc = "done" /\ AllNamesKnown) =>
        /\ Len(initial_cat) = Len(detections)
        /\ \A d \in 1..Len(detections) :
              NoChannelMatches(d) => initial_cat[ResultPosition(d)] = <<>>

\* a returned catalog with the Event of a detection whose template matches
\* no data channel, beside an Event with picks
C5_Witness ==
    /\ pc = "done"
    /\ AllNamesKnown
    /\ Len(detect_data) > 0
    /\ \E d, e \in 1..Len(detections) :
          /\ NoChannelMatches(d)
          /\ Len(TemplateOf(detections[d].template_name)) > 0
          /\ initial_cat[ResultPosition(d)] = <<>>
          /\ initial_cat[ResultPosition(e)] # <<>>

(***************************************************************************)
(* C6: the delay table gives every channel of every template its start     *)
(* time minus the smallest start time of the template: the offsets are     *)
(* >= 0 and the channel that starts first has offset 0.                    *)
(***************************************************************************)
C6_DelayTable ==
    \A t \in 1..Len(delays) :
        /\ delays[t].name = template_names[t]
        /\ Len(delays[t].temp_delays) = Len(templates[t])
        /\ \A k \in 1..Len(templates[t]) :
              LET tr == templates[t][k]
                  mine == SelectSeq(delays[t].temp_delays,
                             LAMBDA e : e[1] = tr.station /\ e[2] = tr.channel)
              IN /\ Len(mine) = 1
                 /\ mine[1][3] = tr.starttime - MinStart(templates[t])
                 /\ mine[1][3] >= 0
                 /\ tr.starttime = MinStart(templates[t]) => mine[1][3] = 0

\* the table of a template whose first trace is not the one that starts
\* first
C6_Witness ==
    /\ pc = "windows"
    /\ \E t \in 1..Len(delays) :
          /\ Len(delays[t].temp_delays) >= 2
          /\ delays[t].temp_delays[1][3] > 0
          /\ \E k \in 1..Len(delays[t].temp_delays) :
                delays[t].temp_delays[k][3] = 0

(***************************************************************************)
(* C7: if a template has zero channels, building the delay table fails     *)
(* with a ConfigurationError and no catalog is returned.                   *)
(***************************************************************************)
C7_EmptyTemplateFails ==
    (\E t \in 1..Len(templates) : Len(templates[t]) = 0) =>
        /\ pc \in {"delays", "raised"}
        /\ pc = "raised" => error = "ConfigurationError"

(***************************************************************************)
(* C8: if a detection names a template that was not supplied, lag_calc     *)
(* fails with a LookupError: no catalog is returned and no group is        *)
(* dispatched, whatever the continuous data holds.                         *)
(***************************************************************************)
LookupErrors == {"LookupError", "IndexError", "KeyError"}

C8_UnknownTemplateFails ==
    ~AllNamesKnown =>
        /\ pc \in {"delays", "windows", "raised"}
        /\ pc = "raised" => error \in LookupErrors
        /\ Len(tasks) = 0

(***************************************************************************)
(* C9: the window set of a detection holds, for every trace of detect_data *)
(* on a channel of the detection's template and in the order of            *)
(* detect_data, that trace cut to the samples between                      *)
(* detect_time - shift_len + delay and                                     *)
(* detect_time + delay + shift_len + npts / sampling_rate, with the delay  *)
(* and the length of that channel in the detection's own template; traces  *)
(* on other channels are left out.                                         *)
(***************************************************************************)
C9_Windows ==
    \A d \in 1..Len(detect_streams) :
        (\E t \in 1..Len(template_names) :
             template_names[t] = detections[d].template_name) =>
        LET template == TemplateOf(detections[d].template_name)
            matched == Positions(Len(detect_data), LAMBDA j :
                           select(template, heap[detect_data[j]].station,
                                  heap[detect_data[j]].channel) # <<>>)
            stream == detect_streams[d].stream
        IN /\ detect_streams[d].name = detections[d].template_name
           /\ Len(stream) = Len(matched)
           /\ \A n \in 1..Len(matched) :
                 LET src == heap[detect_data[matched[n]]]
                     win == heap[stream[n]]
                     ttr == select(template, src.station, src.channel)[1]
                     delay == ttr.starttime - MinStart(template)
                     first == detections[d].detect_time - shift_len + delay
                     last == detections[d].detect_time + delay + shift_len
                                 + ttr.npts * ttr.delta
                 IN /\ win.station = src.station
                    /\ win.channel = src.channel
                    /\ win.delta = src.delta
                    /\ Samples(win) = {p \in Samples(src) :
                                          first <= p[1] /\ p[1] <= last}

\* a detection of a template with a delayed channel, with a window that is
\* a proper part of its data trace, and a data trace that was left out
C9_Witness ==
    /\ pc = "done"
    /\ shift_len > 0
    /\ \E d \in 1..Len(detect_streams) :
          /\ Len(detect_streams[d].stream) >= 2
          /\ Len(detect_streams[d].stream) < Len(detect_data)
          /\ \E n, m \in 1..Len(detect_streams[d].stream) :
                /\ heap[detect_streams[d].stream[n]].starttime
                      # heap[detect_streams[d].stream[m]].starttime
                /\ Len(heap[detect_streams[d].stream[n]].data) > TplNpts

(***************************************************************************)
(* C10: building the windows never changes a trace of detect_data, and a   *)
(* window is a copy: no trace belongs to detect_data and to a window set,  *)
(* or to two window sets.                                                  *)
(***************************************************************************)
\* the places (detection, position) of the traces of the window sets
WindowTraces ==
    UNION {{<<d, n>> : n \in 1..Len(detect_streams[d].stream)} :
              d \in 1..Len(detect_streams)}

NoSharedTrace ==
    /\ \A w \in WindowTraces : \A j \in 1..Len(detect_data) :
          detect_streams[w[1]].stream[w[2]] # detect_data[j]
    /\ \A v, w \in WindowTraces :
          v # w => detect_streams[v[1]].stream[v[2]]
                       # detect_streams[w[1]].stream[w[2]]

C10_DataUntouched ==
    /\ []NoSharedTrace
    /\ [][/\ detect_data' = detect_data
          /\ \A j \in 1..Len(detect_data) :
                heap'[detect_data[j]] = heap[detect_data[j]]]_vars

\* two detections were windowed on the same data trace, their windows
\* share a sample time and are shorter than the data trace
C10_Witness ==
    /\ pc = "done"
    /\ \E v, w \in WindowTraces :
          /\ v[1] # w[1]
          /\ LET a == heap[detect_streams[v[1]].stream[v[2]]]
                 b == heap[detect_streams[w[1]].stream[w[2]]]
             IN /\ a.station = b.station
                /\ a.channel = b.channel
                /\ a # b
                /\ \E p \in Samples(a), q \in Samples(b) : p[1] = q[1]
                /\ \E j \in 1..Len(detect_data) :
                      /\ heap[detect_data[j]].station = a.station
                      /\ heap[detect_data[j]].channel = a.channel
                      /\ Len(heap[detect_data[j]].data) > Len(a.data)

(***************************************************************************)
(* C11: when a task of a group has raised, _day_loop does not return: the  *)
(* call stays in its join or ends by raising TaskFailure, no Event of the  *)
(* group reaches the result, which holds the Events of the earlier         *)
(* templates only, and lag_calc returns nothing.                           *)
(***************************************************************************)
SomeTaskRaised ==
    \E k \in 1..Len(tasks) :
        tasks[k].state = "done" /\ tasks[k].result.raised

C11_GroupFailsAsAWhole ==
    SomeTaskRaised =>
        /\ pc \in {"join", "raised"}
        /\ got < Len(tasks)
        /\ initial_cat = Concatenation(t_idx - 1)
        /\ pc = "raised" => error = "TaskFailure"

\* _day_loop raised after it had collected an Event with picks from a task
\* of the same group, and an earlier group had already returned its Events
C11_Witness ==
    /\ pc = "raised"
    /\ error = "TaskFailure"
    /\ got >= 1
    /\ events_list[1].event # <<>>
    /\ Len(initial_cat) > 0

(***************************************************************************)
(* Definitions shared by the properties of one _channel_loop iteration.    *)
(***************************************************************************)
\* the stepped call is about to run the iteration on template channel cl_k
ClStep == cl_pc = "loop" /\ cl_k <= Len(cl_template)

\* the window trace the iteration on template channel k correlates with
ClImage(k) ==
    select(cl_detection, cl_template[k].station, cl_template[k].channel)[1]

ClHorizontal(k) == LastChar(cl_template[k].channel) \in {"E", "N"}

\* the station of template channel k has a recorded best S channel
ClHasBest(k) == cl_template[k].station \in DOMAIN cl_st.s_stachans

ClBest(k) == cl_st.s_stachans[cl_template[k].station]

\* the pick the iteration that has just run appended
LastPick == cl_st'.picks[Len(cl_st'.picks)]

(***************************************************************************)
(* C12: an iteration that makes its pick from the channel's own            *)
(* correlation, the peak above min_cc and the pick not the recorded one of *)
(* an earlier horizontal channel, appends one pick whose time is the start *)
(* of the window plus the index of the peak times the sample interval;     *)
(* when the window is as long as the template channel the correlation has  *)
(* one value and the pick time is the start of the window.                 *)
(***************************************************************************)
C12_PickTime ==
    [][(/\ ClStep
        /\ ClPeak(cl_k) > cl_min_cc
        /\ ~(ClHorizontal(cl_k) /\ ClHasBest(cl_k)
                /\ ClPeak(cl_k) <= ClBest(cl_k)[2]))
       => LET im == ClImage(cl_k)
              ccc == normxcorr2(cl_template[cl_k], im)
          IN /\ Len(cl_st'.picks) = Len(cl_st.picks) + 1
             /\ \E n \in 1..Len(ccc) :
                   /\ ccc[n] = ClPeak(cl_k)
                   /\ \A j \in 1..(n - 1) : ccc[j] < ccc[n]
                   /\ LastPick.time = im.starttime + (n - 1) * im.delta
             /\ Len(im.data) = cl_template[cl_k].npts =>
                   Len(ccc) = 1 /\ LastPick.time = im.starttime]_vars

\* the first channel was picked one sample interval after the start of its
\* window, the second, whose window is as long as the template channel, at
\* the start of its window
C12_Witness ==
    /\ cl_pc = "loop"
    /\ cl_k = 3
    /\ Len(cl_st.picks) = 2
    /\ ClPeak(1) > cl_min_cc
    /\ ClPeak(2) > cl_min_cc
    /\ Len(ClImage(1).data) = TplNpts + 1
    /\ cl_st.picks[1].channel = cl_template[1].channel
    /\ cl_st.picks[1].time = ClImage(1).starttime + Delta
    /\ Len(ClImage(2).data) = TplNpts
    /\ cl_st.picks[2].channel = cl_template[2].channel
    /\ cl_st.picks[2].time = ClImage(2).starttime

(***************************************************************************)
(* C13: an iteration on a horizontal channel whose station has a recorded  *)
(* best and whose peak is above min_cc and above the recorded peak appends *)
(* an S pick with the channel's own code and time and records the channel, *)
(* its peak and its pick time as the new best of the station, so that the  *)
(* recorded peak is the largest one seen so far.                           *)
(***************************************************************************)
C13_BestIsUpdated ==
    [][(/\ ClStep
        /\ ClHorizontal(cl_k)
        /\ ClHasBest(cl_k)
        /\ ClPeak(cl_k) > cl_min_cc
        /\ ClPeak(cl_k) > ClBest(cl_k)[2])
       => /\ Len(cl_st'.picks) = Len(cl_st.picks) + 1
          /\ LastPick.phase_hint = "S"
          /\ LastPick.channel = cl_template[cl_k].channel
          /\ cl_st'.s_stachans[cl_template[cl_k].station] =
                <<cl_template[cl_k].channel, ClPeak(cl_k), LastPick.time>>]_vars

(***************************************************************************)
(* C14: the iteration on the first horizontal channel of a station whose   *)
(* peak is above min_cc records the channel as the best of the station and *)
(* appends no pick.                                                        *)
(***************************************************************************)
C14_FirstHorizontalDeferred ==
    [][(/\ ClStep
        /\ ClHorizontal(cl_k)
        /\ ~ClHasBest(cl_k)
        /\ ClPeak(cl_k) > cl_min_cc)
       => /\ cl_template[cl_k].station \in DOMAIN cl_st'.s_stachans
          /\ cl_st'.s_stachans[cl_template[cl_k].station][1] =
                cl_template[cl_k].channel
          /\ cl_st'.picks = cl_st.picks]_vars

(***************************************************************************)
(* C15: an iteration on a horizontal channel whose station has a recorded  *)
(* best and whose peak is above min_cc but not above the recorded peak     *)
(* appends one pick with phase hint S that carries the recorded channel    *)
(* code and the recorded pick time, and leaves the record as it was.       *)
(***************************************************************************)
C15_CarryOver ==
    [][(/\ ClStep
        /\ ClHorizontal(cl_k)
        /\ ClHasBest(cl_k)
        /\ ClPeak(cl_k) > cl_min_cc
        /\ ClPeak(cl_k) <= ClBest(cl_k)[2])
       => /\ cl_st'.picks = Append(cl_st.picks,
                [network |-> cl_template[cl_k].network,
                 station |-> cl_template[cl_k].station,
                 channel |-> ClBest(cl_k)[1],
                 time |-> ClBest(cl_k)[3],
                 phase_hint |-> "S"])
          /\ cl_st'.s_stachans = cl_st.s_stachans]_vars

\* the second horizontal channel of a station, with the smaller peak at
\* another time, has been given the channel code and the time of the first
C15_Witness ==
    /\ cl_pc = "loop"
    /\ cl_k = 3
    /\ ClHorizontal(1) /\ ClHorizontal(2)
    /\ cl_template[1].station = cl_template[2].station
    /\ ClPeak(2) > cl_min_cc
    /\ ClPeak(2) < ClPeak(1)
    /\ Len(cl_st.picks) = 2
    /\ cl_st.picks[2].channel = cl_template[1].channel
    /\ cl_st.picks[2].time = cl_st.picks[1].time
    /\ cl_st.picks[2].time #
          picktime_of(ClImage(2).starttime,
                      argmax(normxcorr2(cl_template[2], ClImage(2))), Delta)

(***************************************************************************)
(* C16: every template channel the call has gone through that has a       *)
(* window and a peak above min_cc has, when its code ends in Z, exactly    *)
(* one pick in the Event and that pick has phase hint P, and, when its     *)
(* code ends in none of Z, E and N, exactly one pick and that pick has no  *)
(* phase hint, whatever is recorded for the horizontal channels; a channel *)
(* with no window has no pick.                                             *)
(***************************************************************************)
PicksOn(k) ==
    {n \in 1..Len(cl_st.picks) :
        /\ cl_st.picks[n].station = cl_template[k].station
        /\ cl_st.picks[n].channel = cl_template[k].channel}

ClNoWindow(k) ==
    select(cl_detection, cl_template[k].station, cl_template[k].channel) = <<>>

C16_VerticalAndOtherChannels ==
    \A k \in 1..(cl_k - 1) :
        /\ (ClPeak(k) > cl_min_cc /\ cl_template[k].channel[3] = "Z") =>
              /\ Cardinality(PicksOn(k)) = 1
              /\ \A n \in PicksOn(k) : cl_st.picks[n].phase_hint = "P"
        /\ (ClPeak(k) > cl_min_cc
               /\ cl_template[k].channel[3] \notin {"Z", "E", "N"}) =>
              /\ Cardinality(PicksOn(k)) = 1
              /\ \A n \in PicksOn(k) : cl_st.picks[n].phase_hint = "none"
        /\ ClNoWindow(k) => PicksOn(k) = {}

\* after a horizontal channel of the station was recorded, its vertical
\* channel got a P pick and its channel 1 a pick with no phase hint
C16_Witness ==
    /\ cl_pc = "returned"
    /\ Len(cl_template) = 3
    /\ ClHorizontal(1)
    /\ cl_template[1].station \in DOMAIN cl_st.s_stachans
    /\ cl_template[2].channel = EHZ
    /\ cl_template[2].station = cl_template[1].station
    /\ cl_template[3].channel = EH1
    /\ Len(cl_st.picks) = 3
    /\ cl_st.picks[2].phase_hint = "P"
    /\ cl_st.picks[3].phase_hint = "none"

(***************************************************************************)
(* C17: the Event of a detection is the one a _channel_loop call that      *)
(* starts with nothing recorded makes of the detection's own window set,   *)
(* the template and min_cc: every task of a group ends with that Event,    *)
(* whichever tasks ran before it or beside it, and the result of lag_calc  *)
(* holds that Event for every detection.                                   *)
(***************************************************************************)
AloneEvent(detection, template, mincc) ==
    channel_loop_from([picks |-> <<>>, s_stachans |-> <<>>,
                       used_s_sta |-> <<>>, raised |-> FALSE],
                      1, template, detection, mincc)

AllTasksDone == \A k \in 1..Len(tasks) : tasks[k].state = "done"

C18_GroupsOneAfterAnother ==
    /\ [](~AllTasksDone => pc \in {"join", "raised"})
    /\ [][/\ (pc # "join" /\ pc' = "join") =>
                AllTasksDone /\ got = Len(tasks)
          /\ initial_cat' # initial_cat =>
                /\ AllTasksDone
                /\ got' = Len(tasks)
                /\ initial_cat' =
                      initial_cat \o [k \in 1..Len(tasks) |->
                                         tasks[k].result.event]]_vars

\* the tasks of the second template have just been dispatched, after the
\* group of two detections of the first template returned its two Events
C18_Witness ==
    /\ pc = "join"
    /\ t_idx = 2
    /\ Len(initial_cat) = 2
    /\ initial_cat[1] # <<>>
    /\ Len(tasks) > 0
    /\ \A k \in 1..Len(tasks) : tasks[k].state = "queued"

(***************************************************************************)
(* C19: with fair workers, of which never more run at once than there are  *)
(* cores or tasks, every task _day_loop has dispatched is eventually       *)
(* executed, and a join eventually ends: by returning with the result of   *)
(* every task collected when no task of the group fails, by raising        *)
(* otherwise.                                                              *)
(***************************************************************************)
NoTaskFails ==
    \A k \in 1..Len(tasks) :
        ~channel_loop(tasks[k].detection, tasks[k].template,
                      tasks[k].min_cc, tasks[k].i).raised

C19_TasksRunAndJoinEnds ==
    /\ [](/\ Cardinality(Running) <= cpu_count
          /\ Cardinality(Running) <= Len(tasks))
    /\ (~AllTasksDone) ~> AllTasksDone
    /\ (pc = "join") ~>
          \/ NoTaskFails /\ pc = "groups" /\ got = Len(tasks)
          \/ ~NoTaskFails /\ pc = "raised"

\* a group of three tasks on two workers, the third of which had to wait
\* for a free worker, has returned; the tasks did not finish in the order
\* of their dispatch
C19_Witness ==
    /\ pc = "done"
    /\ Len(tasks) = 3
    /\ num_cores = 2
    /\ got = 3
    /\ finish_order[1] = 1

(***************************************************************************)
(* C20: no step of lag_calc changes the caller's templates: each template  *)
(* keeps its channels in the order the caller gave them, which is then the *)
(* order in which _channel_loop goes through them.                         *)
(***************************************************************************)
C20_TemplatesUntouched ==
    [][/\ templates' = templates
       /\ \A k \in 1..Len(tasks') :
             \E t \in 1..Len(templates) : tasks'[k].template = templates[t]]_vars

====
